---- MODULE Spec2Model ----
(***************************************************************************)
(* Model of the TinyCPU 8-bit emulator of src/cpuarch.py: the memory, the  *)
(* opcode table, the loader (load_program), the operand fetch, the         *)
(* fetch-decode-execute step and the run loop.                             *)
(*                                                                         *)
(* Memory is the Python list [0] * MEM_SIZE.  It is represented sparsely:  *)
(* a function whose domain is exactly the set of addresses holding a       *)
(* nonzero byte; every other address in 0..MEM_SIZE-1 reads as 0.  Two     *)
(* memories are equal as lists iff their representations are equal.        *)
(***************************************************************************)
EXTENDS Integers, Sequences, FiniteSets, TLC

\* ------------------------------------------------------------------------
\* Program constants
\* ------------------------------------------------------------------------
MEM_SIZE == 65536

DEFAULT_MAX_STEPS == 100000

Byte == 0 .. 255

Addr == 0 .. (MEM_SIZE - 1)

\* OPCODES: opcode byte -> mnemonic
OPCODES ==
  [b \in {1, 2, 3, 4, 5, 6, 7, 8, 9, 255} |->
     CASE b = 1 -> "LDA"
       [] b = 2 -> "LDB"
       [] b = 3 -> "LDA_MEM"
       [] b = 4 -> "STA"
       [] b = 5 -> "ADD"
       [] b = 6 -> "SUB"
       [] b = 7 -> "JMP"
       [] b = 8 -> "JZ"
       [] b = 9 -> "OUT"
       [] b = 255 -> "HLT"]

Mnemonics == {OPCODES[b] : b \in DOMAIN OPCODES}

\* OPCODES_INV: mnemonic -> opcode byte, built by inverting OPCODES
OPCODES_INV ==
  [m \in Mnemonics |-> CHOOSE b \in DOMAIN OPCODES : OPCODES[b] = m]

\* str.upper() on the mnemonic strings the model feeds to the loader
upper(s) ==
  CASE s = "lda" -> "LDA"
    [] s = "ldb" -> "LDB"
    [] s = "lda_mem" -> "LDA_MEM"
    [] s = "sta" -> "STA"
    [] s = "add" -> "ADD"
    [] s = "sub" -> "SUB"
    [] s = "jmp" -> "JMP"
    [] s = "jz" -> "JZ"
    [] s = "out" -> "OUT"
    [] s = "hlt" -> "HLT"
    [] OTHER -> s

\* ------------------------------------------------------------------------
\* Memory (list of MEM_SIZE bytes, sparse representation)
\* ------------------------------------------------------------------------
EmptyMem == [a \in {} |-> 0]

\* self.mem[a] for an index inside the list
MemRead(m, a) == IF a \in DOMAIN m THEN m[a] ELSE 0

\* self.mem[a] = v for an index inside the list
MemWrite(m, a, v) ==
  IF v # 0 THEN (a :> v) @@ m
  ELSE IF a \in DOMAIN m THEN [x \in (DOMAIN m) \ {a} |-> m[x]]
  ELSE m

\* ------------------------------------------------------------------------
\* Failures (Python exceptions)
\* ------------------------------------------------------------------------
NoFailure == [kind |-> "none"]

HexDigit == <<"0", "1", "2", "3", "4", "5", "6", "7",
              "8", "9", "A", "B", "C", "D", "E", "F">>

RECURSIVE HexOf(_)
\* upper-case hexadecimal digits of a natural number, most significant first
HexOf(n) ==
  IF n < 16 THEN <<HexDigit[n + 1]>>
            ELSE HexOf(n \div 16) \o <<HexDigit[(n % 16) + 1]>>

RECURSIVE ZeroPad(_, _)
ZeroPad(s, w) == IF Len(s) >= w THEN s ELSE ZeroPad(<<"0">> \o s, w)

\* format(n, "04X"): sign-aware zero padding to a minimum width of 4
Format04X(n) ==
  IF n < 0 THEN <<"-">> \o ZeroPad(HexOf(0 - n), 3)
           ELSE ZeroPad(HexOf(n), 4)

\* RuntimeError(f"Unknown opcode {opcode} at PC {self.PC-1:04X}")
UnknownOpcode(opcode, pcMinus1) ==
  [kind |-> "UnknownOpcode", opcode |-> opcode, at |-> Format04X(pcMinus1)]

\* RuntimeError("Max steps reached (possible infinite loop)")
MaxStepsReached == [kind |-> "MaxSteps"]

\* KeyError raised by OPCODES_INV[op]
UnknownMnemonic(op) == [kind |-> "KeyError", key |-> op]

\* IndexError raised by a list store past the end of self.mem
IndexError == [kind |-> "IndexError"]

\* ------------------------------------------------------------------------
\* TinyCPU
\* ------------------------------------------------------------------------
\* TinyCPU.__init__
NewCPU ==
  [mem |-> EmptyMem, A |-> 0, B |-> 0, PC |-> 0, Z |-> FALSE,
   running |-> TRUE, output |-> <<>>]

\* an instruction is the tuple <<mnemonic>> or <<mnemonic, operand>>
InstrOp(instr) == upper(instr[1])

InstrArg(instr) == IF Len(instr) > 1 THEN instr[2] ELSE 0

\* one list store of the loader: IndexError past the end of memory
LoadStore(st, a, v) ==
  IF st.err # NoFailure THEN st
  ELSE IF a >= MEM_SIZE THEN [st EXCEPT !.err = IndexError]
  ELSE [st EXCEPT !.mem = MemWrite(st.mem, a, v)]

\* variant: the operand stored high byte first
LoadInstr_BigEndian(st, instr, addr) ==
  LET op == InstrOp(instr)
      arg == InstrArg(instr)
  IN IF st.err # NoFailure THEN st
     ELSE IF op \notin DOMAIN OPCODES_INV
       THEN [st EXCEPT !.err = UnknownMnemonic(op)]
       ELSE LET s1 == LoadStore(st, addr, OPCODES_INV[op])
                s2 == LoadStore(s1, addr + 1, (arg \div 256) % 256)
                s3 == LoadStore(s2, addr + 2, arg % 256)
            IN s3

\* body of the loader's for loop for one instruction at address addr
LoadInstr(st, instr, addr) ==
  LET op == InstrOp(instr)
      arg == InstrArg(instr)
  IN IF st.err # NoFailure THEN st
     ELSE IF op \notin DOMAIN OPCODES_INV
       THEN [st EXCEPT !.err = UnknownMnemonic(op)]
       ELSE LET s1 == LoadStore(st, addr, OPCODES_INV[op])
                s2 == LoadStore(s1, addr + 1, arg % 256)
                s3 == LoadStore(s2, addr + 2, (arg \div 256) % 256)
            IN s3

RECURSIVE LoadLoop(_, _, _, _)
\* the loader's for loop over program[lo..hi] in order, instruction k going
\* to address 3(k-1); the range is halved so that long programs evaluate
\* in logarithmic depth
LoadLoop(st, program, lo, hi) ==
  IF lo > hi \/ st.err # NoFailure THEN st
  ELSE IF lo = hi THEN LoadInstr(st, program[lo], 3 * (lo - 1))
  ELSE LET mid == (lo + hi) \div 2
           first == LoadLoop(st, program, lo, mid)
       IN LoadLoop(first, program, mid + 1, hi)

\* variant: no failsafe byte after the last instruction
load_program_NoFailsafe(c, program) ==
  LET st == LoadLoop([mem |-> c.mem, err |-> NoFailure], program, 1, Len(program))
  IN [cpu |-> [c EXCEPT !.mem = st.mem], err |-> st.err]

\* variant: the failsafe byte written even when the loop raised
load_program_FailsafeAlways(c, program) ==
  LET st == LoadLoop([mem |-> c.mem, err |-> NoFailure], program, 1, Len(program))
      fin == LoadStore([st EXCEPT !.err = NoFailure], 3 * Len(program),
                       OPCODES_INV["HLT"])
  IN [cpu |-> [c EXCEPT !.mem = fin.mem],
      err |-> IF st.err # NoFailure THEN st.err ELSE fin.err]

\* TinyCPU.load_program: result memory and the exception raised, if any
load_program(c, program) ==
  LET st == LoadLoop([mem |-> c.mem, err |-> NoFailure], program, 1, Len(program))
      fin == LoadStore(st, 3 * Len(program), OPCODES_INV["HLT"])
  IN [cpu |-> [c EXCEPT !.mem = fin.mem], err |-> fin.err]

\* variant: PC advanced past the operand without the 16-bit mask
fetch_operand_NoWrap(c) ==
  LET lo == MemRead(c.mem, c.PC)
      hi == MemRead(c.mem, (c.PC + 1) % 65536)
  IN [val |-> lo + hi * 256,
      cpu |-> [c EXCEPT !.PC = c.PC + 2]]

\* TinyCPU.fetch_operand: operand value and the CPU with PC advanced by 2
fetch_operand(c) ==
  LET lo == MemRead(c.mem, c.PC)
      hi == MemRead(c.mem, (c.PC + 1) % 65536)
  IN [val |-> lo + hi * 256,
      cpu |-> [c EXCEPT !.PC = (c.PC + 2) % 65536]]

\* The branches of step's dispatch; c has PC already past the opcode byte.
\* variant: Z taken from the 16-bit operand instead of the byte loaded
exec_LDA_ZFromOperand(c) ==
  LET f == fetch_operand(c)
      imm == f.val % 256
  IN [f.cpu EXCEPT !.A = imm, !.Z = (f.val = 0)]

exec_LDA(c) ==
  LET f == fetch_operand(c)
      imm == f.val % 256
  IN [f.cpu EXCEPT !.A = imm, !.Z = (imm = 0)]

exec_LDB(c) ==
  LET f == fetch_operand(c)
      imm == f.val % 256
  IN [f.cpu EXCEPT !.B = imm, !.Z = (imm = 0)]

exec_LDA_MEM(c) ==
  LET f == fetch_operand(c)
      v == MemRead(f.cpu.mem, f.val) % 256
  IN [f.cpu EXCEPT !.A = v, !.Z = (v = 0)]

\* variant: the store also sets Z from the accumulator
exec_STA_SetsZ(c) ==
  LET f == fetch_operand(c)
  IN [f.cpu EXCEPT !.mem = MemWrite(f.cpu.mem, f.val, f.cpu.A % 256),
                   !.Z = (f.cpu.A = 0)]

\* variant: the store address truncated to its low byte
exec_STA_LowByteAddr(c) ==
  LET f == fetch_operand(c)
  IN [f.cpu EXCEPT !.mem = MemWrite(f.cpu.mem, f.val % 256, f.cpu.A % 256)]

exec_STA(c) ==
  LET f == fetch_operand(c)
  IN [f.cpu EXCEPT !.mem = MemWrite(f.cpu.mem, f.val, f.cpu.A % 256)]

exec_ADD(c) ==
  LET s == (c.A + c.B) % 256
  IN [c EXCEPT !.A = s, !.Z = (s = 0)]

exec_SUB(c) ==
  LET s == (c.A - c.B) % 256
  IN [c EXCEPT !.A = s, !.Z = (s = 0)]

\* variant: the jump taken only when Z is set
exec_JMP_OnlyIfZ(c) ==
  LET f == fetch_operand(c)
  IN IF f.cpu.Z THEN [f.cpu EXCEPT !.PC = f.val % 65536] ELSE f.cpu

exec_JMP(c) ==
  LET f == fetch_operand(c)
  IN [f.cpu EXCEPT !.PC = f.val % 65536]

\* variant: the branch tests the accumulator instead of the flag
exec_JZ_TestsA(c) ==
  LET f == fetch_operand(c)
  IN IF f.cpu.A = 0 THEN [f.cpu EXCEPT !.PC = f.val % 65536] ELSE f.cpu

exec_JZ(c) ==
  LET f == fetch_operand(c)
  IN IF f.cpu.Z THEN [f.cpu EXCEPT !.PC = f.val % 65536] ELSE f.cpu

\* variant: B is output instead of A
exec_OUT_AppendsB(c) == [c EXCEPT !.output = Append(c.output, c.B)]

exec_OUT(c) == [c EXCEPT !.output = Append(c.output, c.A)]

exec_HLT(c) == [c EXCEPT !.running = FALSE]

\* variant: an unknown opcode raises with PC still at the opcode byte
step_RaisesBeforeAdvance(c) ==
  LET opcode == MemRead(c.mem, c.PC)
      c1 == [c EXCEPT !.PC = (c.PC + 1) % 65536]
      ok(d) == [cpu |-> d, err |-> NoFailure]
  IN CASE opcode = OPCODES_INV["LDA"] -> ok(exec_LDA(c1))
       [] opcode = OPCODES_INV["LDB"] -> ok(exec_LDB(c1))
       [] opcode = OPCODES_INV["LDA_MEM"] -> ok(exec_LDA_MEM(c1))
       [] opcode = OPCODES_INV["STA"] -> ok(exec_STA(c1))
       [] opcode = OPCODES_INV["ADD"] -> ok(exec_ADD(c1))
       [] opcode = OPCODES_INV["SUB"] -> ok(exec_SUB(c1))
       [] opcode = OPCODES_INV["JMP"] -> ok(exec_JMP(c1))
       [] opcode = OPCODES_INV["JZ"] -> ok(exec_JZ(c1))
       [] opcode = OPCODES_INV["OUT"] -> ok(exec_OUT(c1))
       [] opcode = OPCODES_INV["HLT"] -> ok(exec_HLT(c1))
       [] OTHER -> [cpu |-> c, err |-> UnknownOpcode(opcode, c1.PC - 1)]

\* TinyCPU.step: the CPU after the step and the exception raised, if any
step(c) ==
  LET opcode == MemRead(c.mem, c.PC)
      c1 == [c EXCEPT !.PC = (c.PC + 1) % 65536]
      ok(d) == [cpu |-> d, err |-> NoFailure]
  IN CASE opcode = OPCODES_INV["LDA"] -> ok(exec_LDA(c1))
       [] opcode = OPCODES_INV["LDB"] -> ok(exec_LDB(c1))
       [] opcode = OPCODES_INV["LDA_MEM"] -> ok(exec_LDA_MEM(c1))
       [] opcode = OPCODES_INV["STA"] -> ok(exec_STA(c1))
       [] opcode = OPCODES_INV["ADD"] -> ok(exec_ADD(c1))
       [] opcode = OPCODES_INV["SUB"] -> ok(exec_SUB(c1))
       [] opcode = OPCODES_INV["JMP"] -> ok(exec_JMP(c1))
       [] opcode = OPCODES_INV["JZ"] -> ok(exec_JZ(c1))
       [] opcode = OPCODES_INV["OUT"] -> ok(exec_OUT(c1))
       [] opcode = OPCODES_INV["HLT"] -> ok(exec_HLT(c1))
       [] OTHER -> [cpu |-> c1, err |-> UnknownOpcode(opcode, c1.PC - 1)]

\* ------------------------------------------------------------------------
\* State: two independently constructed TinyCPU instances and, for each,
\* the caller's position in load_program / run.
\* ------------------------------------------------------------------------
Inst == {1, 2}

VARIABLES
  cpu,        \* cpu[i]: the fields of instance i
  program,    \* program[i]: the argument of the last load_program call
  phase,      \* "new", "loaded", "run", "returned", "failed"
  steps,      \* run's local counter
  max_steps,  \* run's argument
  failure,    \* the exception that ended load_program or run
  fetched,    \* history: PC, byte and operand of the last opcode fetch
  produced,   \* history: value of the last write to A or B by an instruction
  intact      \* history: no store into the program, no jump off its opcodes

vars ==
  <<cpu, program, phase, steps, max_steps, failure, fetched, produced, intact>>

NoFetch == [pc |-> -1, opcode |-> -1, operand |-> -1]

\* opcodes whose branch of step calls fetch_operand
OperandOpcodes == {1, 2, 3, 4, 7, 8}

\* the operand a step at c decodes, -1 when its branch fetches none
DecodedOperand(c) ==
  IF MemRead(c.mem, c.PC) \in OperandOpcodes
    THEN fetch_operand([c EXCEPT !.PC = (c.PC + 1) % 65536]).val
    ELSE -1

NotProduced == -1

Init ==
  /\ cpu = [i \in Inst |-> NewCPU]
  /\ program = [i \in Inst |-> <<>>]
  /\ phase = [i \in Inst |-> "new"]
  /\ steps = [i \in Inst |-> 0]
  /\ max_steps = [i \in Inst |-> 0]
  /\ failure = [i \in Inst |-> NoFailure]
  /\ fetched = [i \in Inst |-> NoFetch]
  /\ produced = [i \in Inst |-> NotProduced]
  /\ intact = [i \in Inst |-> TRUE]

\* cpu.load_program(p) on a freshly constructed instance
Load(i, p) ==
  /\ phase[i] = "new"
  /\ LET r == load_program(cpu[i], p)
     IN /\ cpu' = [cpu EXCEPT ![i] = r.cpu]
        /\ failure' = [failure EXCEPT ![i] = r.err]
        /\ phase' = [phase EXCEPT
                       ![i] = IF r.err = NoFailure THEN "loaded" ELSE "failed"]
  /\ program' = [program EXCEPT ![i] = p]
  /\ UNCHANGED <<steps, max_steps, fetched, produced, intact>>

\* cpu.run(ms): entry, steps = 0
RunBegin(i, ms) ==
  /\ phase[i] = "loaded"
  /\ phase' = [phase EXCEPT ![i] = "run"]
  /\ steps' = [steps EXCEPT ![i] = 0]
  /\ max_steps' = [max_steps EXCEPT ![i] = ms]
  /\ UNCHANGED <<cpu, program, failure, fetched, produced, intact>>

\* the value an A/B-producing opcode wrote, NotProduced for the others
ProducedBy(opcode, d, old) ==
  IF opcode \in {1, 3, 5, 6} THEN d.A
  ELSE IF opcode = 2 THEN d.B
  ELSE old

\* the step at c, of a CPU loaded with n instructions, is an STA into the
\* loaded bytes 0..3n or a taken jump to an address that is not one of the
\* opcode addresses 0, 3, .., 3n
Strays(c, n) ==
  LET opcode == MemRead(c.mem, c.PC)
      t == DecodedOperand(c)
      starts == {3 * k : k \in 0 .. n}
  IN \/ opcode = OPCODES_INV["STA"] /\ t \in 0 .. (3 * n)
     \/ opcode = OPCODES_INV["JMP"] /\ t \notin starts
     \/ opcode = OPCODES_INV["JZ"] /\ c.Z /\ t \notin starts

\* variant: output is one list shared by every instance
RunStep_SharedOutput(i) ==
  /\ phase[i] = "run"
  /\ cpu[i].running /\ steps[i] < max_steps[i]
  /\ LET r == step(cpu[i])
         opcode == MemRead(cpu[i].mem, cpu[i].PC)
     IN /\ cpu' = [j \in Inst |->
                   IF j = i THEN r.cpu
                   ELSE [cpu[j] EXCEPT !.output = r.cpu.output]]
        /\ fetched' = [fetched EXCEPT
                         ![i] = [pc |-> cpu[i].PC, opcode |-> opcode,
                                 operand |-> DecodedOperand(cpu[i])]]
        /\ produced' = [produced EXCEPT
                          ![i] = ProducedBy(opcode, r.cpu, produced[i])]
        /\ intact' = [intact EXCEPT
                        ![i] = intact[i]
                                 /\ ~Strays(cpu[i], Len(program[i]))]
        /\ IF r.err = NoFailure
             THEN /\ steps' = [steps EXCEPT ![i] = steps[i] + 1]
                  /\ UNCHANGED <<phase, failure>>
             ELSE /\ phase' = [phase EXCEPT ![i] = "failed"]
                  /\ failure' = [failure EXCEPT ![i] = r.err]
                  /\ UNCHANGED steps
  /\ UNCHANGED <<program, max_steps>>

\* variant: the loop tests the step count only, not self.running
RunStep_IgnoresRunning(i) ==
  /\ phase[i] = "run"
  /\ steps[i] < max_steps[i]
  /\ LET r == step(cpu[i])
         opcode == MemRead(cpu[i].mem, cpu[i].PC)
     IN /\ cpu' = [cpu EXCEPT ![i] = r.cpu]
        /\ fetched' = [fetched EXCEPT
                         ![i] = [pc |-> cpu[i].PC, opcode |-> opcode,
                                 operand |-> DecodedOperand(cpu[i])]]
        /\ produced' = [produced EXCEPT
                          ![i] = ProducedBy(opcode, r.cpu, produced[i])]
        /\ intact' = [intact EXCEPT
                        ![i] = intact[i]
                                 /\ ~Strays(cpu[i], Len(program[i]))]
        /\ IF r.err = NoFailure
             THEN /\ steps' = [steps EXCEPT ![i] = steps[i] + 1]
                  /\ UNCHANGED <<phase, failure>>
             ELSE /\ phase' = [phase EXCEPT ![i] = "failed"]
                  /\ failure' = [failure EXCEPT ![i] = r.err]
                  /\ UNCHANGED steps
  /\ UNCHANGED <<program, max_steps>>

\* one iteration of run's while loop: self.step(); steps += 1
RunStep(i) ==
  /\ phase[i] = "run"
  /\ cpu[i].running /\ steps[i] < max_steps[i]
  /\ LET r == step(cpu[i])
         opcode == MemRead(cpu[i].mem, cpu[i].PC)
     IN /\ cpu' = [cpu EXCEPT ![i] = r.cpu]
        /\ fetched' = [fetched EXCEPT
                         ![i] = [pc |-> cpu[i].PC, opcode |-> opcode,
                                 operand |-> DecodedOperand(cpu[i])]]
        /\ produced' = [produced EXCEPT
                          ![i] = ProducedBy(opcode, r.cpu, produced[i])]
        /\ intact' = [intact EXCEPT
                        ![i] = intact[i]
                                 /\ ~Strays(cpu[i], Len(program[i]))]
        /\ IF r.err = NoFailure
             THEN /\ steps' = [steps EXCEPT ![i] = steps[i] + 1]
                  /\ UNCHANGED <<phase, failure>>
             ELSE /\ phase' = [phase EXCEPT ![i] = "failed"]
                  /\ failure' = [failure EXCEPT ![i] = r.err]
                  /\ UNCHANGED steps
  /\ UNCHANGED <<program, max_steps>>

\* run's loop exit and the final budget test
RunEnd(i) ==
  /\ phase[i] = "run"
  /\ ~(cpu[i].running /\ steps[i] < max_steps[i])
  /\ IF steps[i] >= max_steps[i]
       THEN /\ phase' = [phase EXCEPT ![i] = "failed"]
            /\ failure' = [failure EXCEPT ![i] = MaxStepsReached]
       ELSE /\ phase' = [phase EXCEPT ![i] = "returned"]
            /\ UNCHANGED failure
  /\ UNCHANGED <<cpu, program, steps, max_steps, fetched, produced, intact>>

\* cpu.run(ms) called again on an instance that has halted
RunAgain(i, ms) ==
  /\ phase[i] \in {"returned", "failed"}
  /\ ~cpu[i].running
  /\ phase' = [phase EXCEPT ![i] = "run"]
  /\ steps' = [steps EXCEPT ![i] = 0]
  /\ max_steps' = [max_steps EXCEPT ![i] = ms]
  /\ failure' = [failure EXCEPT ![i] = NoFailure]
  /\ UNCHANGED <<cpu, program, fetched, produced, intact>>

\* ------------------------------------------------------------------------
\* Bounds and input sets
\* ------------------------------------------------------------------------
MaxLen == 2

MaxBudget == 3

\* operands: zero, small addresses, a value whose low byte is zero, the
\* top of the 16-bit range
Operands == {0, 3, 256, 65535}

LoaderMnemonics == Mnemonics \cup {"hlt", "NOP"}

Instrs == {<<m, v>> : m \in LoaderMnemonics, v \in Operands} \cup {<<"HLT">>}

SeqsUpTo(S, n) == UNION {[1 .. k -> S] : k \in 0 .. n}

Programs == SeqsUpTo(Instrs, MaxLen)

Budgets == 0 .. MaxBudget

Next ==
  \/ phase[1] = "new" /\ \E p \in Programs : Load(1, p)
  \/ phase[1] = "loaded" /\ \E ms \in Budgets : RunBegin(1, ms)
  \/ RunStep(1)
  \/ RunEnd(1)

Spec == Init /\ [][Next]_vars

TypeOK ==
  \A i \in Inst :
    /\ cpu[i].A \in Byte /\ cpu[i].B \in Byte /\ cpu[i].PC \in Addr
    /\ DOMAIN cpu[i].mem \subseteq Addr
    /\ \A a \in DOMAIN cpu[i].mem : cpu[i].mem[a] \in 1 .. 255
Finished(i) == phase[i] \in {"returned", "failed"}

\* ------------------------------------------------------------------------
\* Arithmetic programs: LDA x, LDB y, ADD|SUB, OUT, HLT, default budget
\* ------------------------------------------------------------------------
ArithProgram(x, y, op) ==
  <<<<"LDA", x>>, <<"LDB", y>>, <<op, 0>>, <<"OUT", 0>>, <<"HLT", 0>>>>

\* second operands: zero, the demo's 5, one that wraps a sum, the largest
ArithSecond == {0, 5, 200, 255}

ArithPrograms ==
  {ArithProgram(x, y, op) :
     x \in Byte, y \in ArithSecond, op \in {"ADD", "SUB"}}
    \cup {<<<<"HLT", 0>>>>}

NextArith ==
  \/ phase[1] = "new" /\ \E p \in ArithPrograms : Load(1, p)
  \/ RunBegin(1, DEFAULT_MAX_STEPS)
  \/ RunStep(1)
  \/ RunEnd(1)

SpecArith == Init /\ [][NextArith]_vars

\* C1: LDA x, LDB y, ADD, OUT, HLT run with the default budget ends HALTED
\* without failure and with Output = [(x + y) mod 256].
C1_AddProgramOutput ==
  (Finished(1) /\ Len(program[1]) = 5 /\ InstrOp(program[1][3]) = "ADD") =>
    /\ phase[1] = "returned"
    /\ ~cpu[1].running
    /\ cpu[1].output =
         <<(InstrArg(program[1][1]) + InstrArg(program[1][2])) % 256>>

\* C2: LDA x, LDB y, SUB, OUT, HLT run with the default budget ends HALTED
\* without failure and with Output = [(x - y) mod 256], wrapped into 0..255.
C2_SubProgramOutput ==
  (Finished(1) /\ Len(program[1]) = 5 /\ InstrOp(program[1][3]) = "SUB") =>
    /\ phase[1] = "returned"
    /\ ~cpu[1].running
    /\ cpu[1].output =
         <<(InstrArg(program[1][1]) - InstrArg(program[1][2])) % 256>>
\* ------------------------------------------------------------------------
\* Pairs of programs that differ only in the operands of instructions that
\* take none, each run on its own fresh instance with the same budget
\* ------------------------------------------------------------------------
MaxPairLen == 2

NoOperandMnemonics == {"ADD", "SUB", "OUT", "HLT"}

\* operand values for the pair programs: the usual 0, and the OUT opcode
PairOperands == {0, 9}

PairInstrs ==
  {<<m, v>> : m \in {"LDA", "ADD", "SUB", "OUT", "HLT"}, v \in PairOperands}

PairPrograms == SeqsUpTo(PairInstrs, MaxPairLen)

SameUpToUnusedOperands(p, q) ==
  /\ Len(p) = Len(q)
  /\ \A k \in 1 .. Len(p) :
       /\ InstrOp(p[k]) = InstrOp(q[k])
       /\ InstrOp(p[k]) \notin NoOperandMnemonics
            => InstrArg(p[k]) = InstrArg(q[k])

\* how load_program and run ended on instance i
Outcome(i) == IF phase[i] = "returned" THEN "HALTED" ELSE failure[i].kind

NextPair ==
  \/ phase[1] = "new" /\ \E p \in PairPrograms : Load(1, p)
  \/ phase[1] = "loaded" /\ \E ms \in Budgets : RunBegin(1, ms)
  \/ RunStep(1)
  \/ RunEnd(1)
  \/ /\ Finished(1) /\ phase[2] = "new"
     /\ \E q \in PairPrograms :
          SameUpToUnusedOperands(program[1], q) /\ Load(2, q)
  \/ RunBegin(2, max_steps[1])
  \/ RunStep(2)
  \/ RunEnd(2)

SpecPair == Init /\ [][NextPair]_vars

\* C3: two runs, with the same budget on fresh CPUs, of programs that differ
\* only in the operands given to ADD/SUB/OUT/HLT end with the same outcome
\* and the same Output, A, B and Z.
C3_UnusedOperandIgnored ==
  ( /\ Finished(1) /\ Finished(2)
    /\ SameUpToUnusedOperands(program[1], program[2])
    /\ max_steps[1] = max_steps[2] ) =>
    /\ Outcome(1) = Outcome(2)
    /\ cpu[1].output = cpu[2].output
    /\ cpu[1].A = cpu[2].A
    /\ cpu[1].B = cpu[2].B
    /\ cpu[1].Z = cpu[2].Z
\* ------------------------------------------------------------------------
\* Claims about run and step on the programs of Spec
\* ------------------------------------------------------------------------
\* C5: run raises the step-budget failure iff the engine is still RUNNING
\* after max_steps steps; a run whose engine reached HALTED within its
\* max_steps steps returns successfully.
C5_BudgetFailureIffStillRunning ==
  (Finished(1) /\ failure[1].kind \in {"none", "MaxSteps"}) =>
    /\ failure[1] = MaxStepsReached
         <=> (cpu[1].running /\ steps[1] = max_steps[1])
    /\ (~cpu[1].running /\ steps[1] <= max_steps[1])
         => phase[1] = "returned"

\* C6: a step that fetches at address p a byte that is not an opcode fails
\* with the unknown-opcode failure, which reports that byte and p.
C6_UnknownOpcodeReport ==
  (fetched[1] # NoFetch /\ fetched[1].opcode \notin DOMAIN OPCODES) =>
    /\ phase[1] = "failed"
    /\ failure[1] = [kind |-> "UnknownOpcode",
                     opcode |-> fetched[1].opcode,
                     at |-> Format04X(fetched[1].pc)]
\* ------------------------------------------------------------------------
\* LDA with every 16-bit operand
\* ------------------------------------------------------------------------
Word == 0 .. 65535

ImmPrograms == {<<<<"LDA", v>>>> : v \in Word}

NextImm ==
  \/ phase[1] = "new" /\ \E p \in ImmPrograms : Load(1, p)
  \/ RunBegin(1, DEFAULT_MAX_STEPS)
  \/ RunStep(1)
  \/ RunEnd(1)

SpecImm == Init /\ [][NextImm]_vars

\* the state right after the first instruction of the program, an LDA
AfterFirstLDA ==
  /\ phase[1] = "run" /\ steps[1] = 1
  /\ Len(program[1]) >= 1 /\ InstrOp(program[1][1]) = "LDA"
  /\ fetched[1].pc = 0 /\ fetched[1].opcode = OPCODES_INV["LDA"]

\* C7 as stated: after LDA v, v in 0..65535, Z is true if v = 0 and false
\* if v is nonzero.
C7_LdaZeroFlag_AsStated ==
  AfterFirstLDA => (cpu[1].Z <=> (InstrArg(program[1][1]) = 0))

\* C7 amended: after LDA v, v in 0..65535, Z is true iff the byte loaded,
\* v mod 256, is zero (for v in 0..255: iff v = 0).
C7_LdaZeroFlag ==
  AfterFirstLDA =>
    /\ cpu[1].A = InstrArg(program[1][1]) % 256
    /\ cpu[1].Z <=> (InstrArg(program[1][1]) % 256 = 0)

C7_Witness ==
  AfterFirstLDA /\ InstrArg(program[1][1]) = 256 /\ cpu[1].Z

\* ------------------------------------------------------------------------
\* Flag programs: producers of A/B, then stores, jumps and outputs, then JZ
\* ------------------------------------------------------------------------
MaxFlagLen == 3

\* ADD/SUB/OUT carry the operand 8 so that their operand byte runs as a JZ
FlagInstrs ==
  {<<"LDA", 0>>, <<"LDA", 1>>, <<"LDB", 0>>, <<"LDA_MEM", 65535>>,
   <<"LDA_MEM", 0>>, <<"ADD", 8>>, <<"SUB", 8>>, <<"STA", 65535>>,
   <<"JMP", 6>>, <<"JZ", 6>>, <<"JZ", 0>>, <<"OUT", 8>>}

FlagPrograms == SeqsUpTo(FlagInstrs, MaxFlagLen)

NextFlag ==
  \/ phase[1] = "new" /\ \E p \in FlagPrograms : Load(1, p)
  \/ RunBegin(1, MaxFlagLen + 2)
  \/ RunStep(1)
  \/ RunEnd(1)

SpecFlag == Init /\ [][NextFlag]_vars

\* C8: a JZ t step sets PC to t exactly when the most recently executed
\* A/B-producing instruction produced 0, whatever STA, JMP, JZ or OUT steps
\* ran since; otherwise (also when none has run) PC is the address just past
\* the JZ's operand bytes.
C8_JzTakenIffLastProducedZero ==
  fetched[1].opcode = OPCODES_INV["JZ"] =>
    cpu[1].PC = IF produced[1] = 0
                  THEN fetched[1].operand % 65536
                  ELSE (fetched[1].pc + 3) % 65536

\* LDA 0, then a store, then a JZ that is taken
C8_Witness ==
  /\ steps[1] = 3 /\ Len(program[1]) = 3
  /\ InstrOp(program[1][2]) = "STA"
  /\ fetched[1].opcode = OPCODES_INV["JZ"] /\ fetched[1].pc = 6
  /\ produced[1] = 0
  /\ cpu[1].PC = fetched[1].operand
  /\ cpu[1].PC # fetched[1].pc + 3

\* ------------------------------------------------------------------------
\* Jump programs, among them the JMP to its own address
\* ------------------------------------------------------------------------
SelfJump == <<<<"JMP", 0>>>>

JumpPrograms ==
  {<<<<"JMP", t>>>> : t \in Operands}
    \cup {<<<<"LDA", v>>, <<"JMP", t>>>> : v \in {0, 1}, t \in {6, 256, 65535}}

JumpBudgets == (1 .. MaxBudget) \cup {DEFAULT_MAX_STEPS}

NextJump ==
  \/ phase[1] = "new" /\ \E p \in JumpPrograms : Load(1, p)
  \/ phase[1] = "loaded" /\ \E ms \in JumpBudgets : RunBegin(1, ms)
  \/ RunStep(1)
  \/ RunEnd(1)

SpecJump == Init /\ [][NextJump]_vars

\* C9: a JMP step sets PC to its operand whatever Z is; the program JMP 0
\* never halts: between steps registers, flag, memory and Output are as
\* loaded, and run(max_steps), max_steps >= 1, ends after exactly max_steps
\* steps with the step-budget failure.
C9_SelfJumpExhaustsBudget ==
  /\ fetched[1].opcode = OPCODES_INV["JMP"]
       => cpu[1].PC = fetched[1].operand
  /\ (program[1] = SelfJump /\ phase[1] # "new") =>
       /\ cpu[1] = [NewCPU EXCEPT !.mem = (0 :> 7) @@ (3 :> 255)]
       /\ steps[1] <= max_steps[1]
       /\ phase[1] # "returned"
       /\ phase[1] = "failed" =>
            (failure[1] = MaxStepsReached /\ steps[1] = max_steps[1])

C9_Witness ==
  /\ program[1] = SelfJump /\ phase[1] = "failed"
  /\ failure[1] = MaxStepsReached
  /\ steps[1] = DEFAULT_MAX_STEPS

\* ------------------------------------------------------------------------
\* The loader alone
\* ------------------------------------------------------------------------
MaxLoadLen == 2

\* operands: zero, one with distinct low and high bytes, the largest 16-bit
\* value, one that does not fit 16 bits
LoadOperands == {0, 258, 65535, 65541}

LoadInstrs ==
  {<<m, v>> : m \in LoaderMnemonics, v \in LoadOperands} \cup {<<"HLT">>}

LoadPrograms == SeqsUpTo(LoadInstrs, MaxLoadLen)

NextLoad == phase[1] = "new" /\ \E p \in LoadPrograms : Load(1, p)

SpecLoad == Init /\ [][NextLoad]_vars

ValidMnemonics(p) == \A k \in 1 .. Len(p) : InstrOp(p[k]) \in Mnemonics

\* C10: after load_program of n valid instructions on a fresh CPU,
\* Memory[3i] is the opcode of instruction i, Memory[3i+1] the low and
\* Memory[3i+2] the high byte of its operand (fetch_operand at 3i+1 returns
\* the operand mod 65536), Memory[3n] is 0xFF, and every other cell, the
\* registers, Z, PC and Output are unchanged.
C10_LoaderLayout ==
  LET p == program[1]
      n == Len(p)
      m == cpu[1].mem
  IN (phase[1] # "new" /\ ValidMnemonics(p)) =>
       /\ phase[1] = "loaded"
       /\ \A i \in 0 .. (n - 1) :
            /\ MemRead(m, 3 * i) = OPCODES_INV[InstrOp(p[i + 1])]
            /\ MemRead(m, 3 * i + 1) = InstrArg(p[i + 1]) % 256
            /\ MemRead(m, 3 * i + 2) = (InstrArg(p[i + 1]) \div 256) % 256
            /\ fetch_operand([cpu[1] EXCEPT !.PC = 3 * i + 1]).val
                 = InstrArg(p[i + 1]) % 65536
       /\ MemRead(m, 3 * n) = 255
       /\ DOMAIN m \subseteq 0 .. (3 * n)
       /\ [cpu[1] EXCEPT !.mem = EmptyMem] = NewCPU

C10_Witness ==
  /\ phase[1] = "loaded" /\ Len(program[1]) = 2
  /\ program[1][1] = <<"LDA", 258>>
  /\ program[1][2] = <<"hlt", 65541>>
  /\ cpu[1].mem = (0 :> 1) @@ (1 :> 2) @@ (2 :> 1) @@ (3 :> 255)
                     @@ (4 :> 5) @@ (6 :> 255)
\* ------------------------------------------------------------------------
\* Store / load round trip: k padding instructions, LDA v, STA a, LDA_MEM a
\* ------------------------------------------------------------------------
MaxPad == 2

RoundTripProgram(k, v, a) ==
  [i \in 1 .. k |-> <<"LDB", 1>>]
    \o <<<<"LDA", v>>, <<"STA", a>>, <<"LDA_MEM", a>>>>

\* every address of the longest program and its failsafe byte, and
\* addresses below and above the 8-bit boundary and at the top of memory
RoundTripAddrs == (0 .. (3 * (MaxPad + 3) + 2)) \cup {255, 256, 65534, 65535}

RoundTripPrograms ==
  {RoundTripProgram(k, v, a) :
     k \in 0 .. MaxPad, v \in Byte, a \in RoundTripAddrs}

NextRoundTrip ==
  \/ phase[1] = "new" /\ \E p \in RoundTripPrograms : Load(1, p)
  \/ RunBegin(1, MaxPad + 4)
  \/ RunStep(1)
  \/ RunEnd(1)

SpecRoundTrip == Init /\ [][NextRoundTrip]_vars

\* the value, the address and the LDA_MEM position of the loaded program
StoredValue == InstrArg(program[1][Len(program[1]) - 2])

StoreAddr == InstrArg(program[1][Len(program[1]) - 1])

LoadPos == 3 * (Len(program[1]) - 1)

\* the state after the step that follows the STA step
AfterPair ==
  /\ phase[1] = "run" /\ Len(program[1]) >= 3
  /\ steps[1] = Len(program[1])

RoundTrips ==
  /\ cpu[1].A = StoredValue
  /\ MemRead(cpu[1].mem, StoreAddr) = StoredValue
  /\ cpu[1].Z <=> (StoredValue = 0)

\* C4 as stated: for every address a in 0..65535 and every v in 0..255,
\* the pair STA a, LDA_MEM a of a loaded program leaves A = v,
\* Memory[a] = v and Z = (v = 0).
C4_RoundTrip_AsStated == AfterPair => RoundTrips

\* C4 amended: the same, for every address a that is not one of the three
\* bytes of the LDA_MEM instruction itself.
C4_RoundTrip ==
  (AfterPair /\ StoreAddr \notin LoadPos .. (LoadPos + 2)) =>
    /\ RoundTrips
    /\ fetched[1] = [pc |-> LoadPos, opcode |-> OPCODES_INV["LDA_MEM"],
                     operand |-> StoreAddr]

C4_Witness ==
  /\ AfterPair /\ Len(program[1]) = 4
  /\ StoredValue = 200 /\ StoreAddr = 65535
  /\ cpu[1].A = 200 /\ MemRead(cpu[1].mem, 65535) = 200 /\ ~cpu[1].Z
\* ------------------------------------------------------------------------
\* The loader on programs with unknown mnemonics
\* ------------------------------------------------------------------------
\* indexes of the instructions whose mnemonic is not in the table
BadIndexes(p) == {k \in 1 .. Len(p) : InstrOp(p[k]) \notin Mnemonics}

FirstBad(p) == CHOOSE k \in BadIndexes(p) : \A j \in BadIndexes(p) : k <= j

\* C11: load_program of a program that fits in memory fails with the
\* unknown-mnemonic failure iff some mnemonic is not in the table; it fails
\* at the first such instruction, before any byte of that instruction, of a
\* later instruction or the failsafe HLT byte is written.
C11_UnknownMnemonicFailsFirst ==
  LET p == program[1]
      m == cpu[1].mem
  IN phase[1] # "new" =>
       /\ phase[1] = "failed" <=> BadIndexes(p) # {}
       /\ BadIndexes(p) # {} =>
            /\ failure[1] = UnknownMnemonic(InstrOp(p[FirstBad(p)]))
            /\ \A i \in 0 .. (FirstBad(p) - 2) :
                 /\ MemRead(m, 3 * i) = OPCODES_INV[InstrOp(p[i + 1])]
                 /\ MemRead(m, 3 * i + 1) = InstrArg(p[i + 1]) % 256
                 /\ MemRead(m, 3 * i + 2)
                      = (InstrArg(p[i + 1]) \div 256) % 256
            /\ DOMAIN m \subseteq 0 .. (3 * (FirstBad(p) - 1) - 1)
            /\ [cpu[1] EXCEPT !.mem = EmptyMem] = NewCPU

C11_Witness ==
  /\ phase[1] = "failed"
  /\ program[1] = <<<<"LDA", 258>>, <<"NOP", 65535>>>>
  /\ failure[1] = UnknownMnemonic("NOP")
  /\ cpu[1].mem = (0 :> 1) @@ (1 :> 2) @@ (2 :> 1)
\* ------------------------------------------------------------------------
\* Two instances, their operations interleaved in every order
\* ------------------------------------------------------------------------
TwoBudget == 3

\* programs that output, store, loop, fail and halt
TwoPrograms ==
  {<<>>,
   <<<<"LDA", 1>>, <<"OUT", 255>>>>,
   <<<<"LDA", 7>>, <<"STA", 65535>>>>,
   <<<<"LDB", 2>>, <<"JMP", 0>>>>,
   <<<<"SUB", 9>>>>,
   <<<<"NOP", 0>>>>}

NextTwo ==
  \E i \in Inst :
    \/ phase[i] = "new" /\ \E p \in TwoPrograms : Load(i, p)
    \/ RunBegin(i, TwoBudget)
    \/ RunStep(i)
    \/ RunEnd(i)

SpecTwo == Init /\ [][NextTwo]_vars

RECURSIVE RunFrom(_, _, _)
\* the CPU that run's loop leaves, started at c with n steps counted
RunFrom(c, n, ms) ==
  IF ~c.running \/ n >= ms THEN c
  ELSE LET r == step(c)
       IN IF r.err # NoFailure THEN r.cpu ELSE RunFrom(r.cpu, n + 1, ms)

\* the CPU that load_program(p) and run(ms) leave on a lone fresh instance
Alone(p, ms) ==
  LET l == load_program(NewCPU, p)
  IN IF l.err # NoFailure THEN l.cpu ELSE RunFrom(l.cpu, 0, ms)

\* an operation has acted on instance i
ActedOn(i) ==
  \/ phase'[i] # phase[i]
  \/ steps'[i] # steps[i]
  \/ program'[i] # program[i]

\* C12: under any interleaving of load_program and steps on two instances,
\* an operation on one leaves the other's memory, A, B, PC, Z, running and
\* Output unchanged, and each instance ends with the Output and registers
\* it produces when run alone.
C12_InstancesIndependent ==
  /\ [][\A i \in Inst : ActedOn(i) =>
          \A j \in Inst \ {i} : cpu'[j] = cpu[j]]_vars
  /\ [](\A i \in Inst :
          Finished(i) => cpu[i] = Alone(program[i], max_steps[i]))

\* both finished, each with its own output and memory
C12_Witness ==
  /\ Finished(1) /\ Finished(2)
  /\ cpu[1].output = <<1>> /\ cpu[2].output = <<>>
  /\ MemRead(cpu[2].mem, 65535) = 7 /\ MemRead(cpu[1].mem, 65535) = 0
\* ------------------------------------------------------------------------
\* Position of PC in the loaded program
\* ------------------------------------------------------------------------
\* a step of run is about to begin on instance i
StepBegins(i) ==
  phase[i] = "run" /\ cpu[i].running /\ steps[i] < max_steps[i]

\* C13: for a freshly loaded program of n instructions run from PC = 0, as
\* long as no STA has written into 0..3n and no taken jump has targeted an
\* address that is not the start of an encoded instruction, PC at the
\* beginning of every step is the address of an opcode byte written by the
\* loader (a multiple of 3 that is at most 3n), never an operand byte.
C13_PcAtOpcodeByte ==
  (StepBegins(1) /\ intact[1]) =>
    cpu[1].PC \in {3 * k : k \in 0 .. Len(program[1])}
\* ------------------------------------------------------------------------
\* Straight-line programs without a HLT of their own
\* ------------------------------------------------------------------------
MaxStraightLen == 3

StraightInstrs ==
  {<<m, v>> : m \in {"LDA", "LDB", "LDA_MEM"}, v \in Operands}

StraightPrograms == SeqsUpTo(StraightInstrs, MaxStraightLen)

\* budgets at and above the n + 1 steps of the program, and the default
StraightBudgets(n) == {n + 1, n + 2, DEFAULT_MAX_STEPS}

NextStraight ==
  \/ phase[1] = "new" /\ \E p \in StraightPrograms : Load(1, p)
  \/ \E ms \in StraightBudgets(Len(program[1])) : RunBegin(1, ms)
  \/ RunStep(1)
  \/ RunEnd(1)

SpecStraight == Init /\ [][NextStraight]_vars

\* C14: a program of n instructions drawn from LDA, LDB and LDA_MEM, run
\* with a budget greater than n + 1, executes exactly n + 1 steps, the last
\* of which is the failsafe HLT byte at address 3n, and ends HALTED without
\* failure.
C14_FailsafeHalts ==
  LET n == Len(program[1])
  IN (phase[1] \in {"run", "returned", "failed"} /\ max_steps[1] > n + 1) =>
       /\ phase[1] # "failed"
       /\ steps[1] <= n + 1
       /\ cpu[1].running <=> steps[1] <= n
       /\ cpu[1].PC = IF cpu[1].running THEN 3 * steps[1] ELSE 3 * n + 1
       /\ phase[1] = "returned" =>
            /\ steps[1] = n + 1
            /\ failure[1] = NoFailure
            /\ fetched[1] = [pc |-> 3 * n, opcode |-> OPCODES_INV["HLT"],
                             operand |-> -1]

C14_Witness ==
  /\ phase[1] = "returned" /\ Len(program[1]) = 2
  /\ steps[1] = 3 /\ max_steps[1] = 4
  /\ ~cpu[1].running /\ fetched[1].pc = 6
\* ------------------------------------------------------------------------
\* Self-modifying programs and jumps to the top of memory
\* ------------------------------------------------------------------------
\* LDA v, STA a, JMP t: plant the byte v near the top of memory, jump there
PlantValues == DOMAIN OPCODES \cup {0, 200}

PlantAddrs == {0, 1, 65534, 65535}

PlantTargets == {0, 65534, 65535}

PlantPrograms ==
  {<<<<"LDA", v>>, <<"STA", a>>, <<"JMP", t>>>> :
     v \in PlantValues, a \in PlantAddrs, t \in PlantTargets}

WildPrograms == Programs \cup PlantPrograms

WildBudgets == 0 .. (MaxBudget + 3)

NextWild ==
  \/ phase[1] = "new" /\ \E p \in WildPrograms : Load(1, p)
  \/ phase[1] = "loaded" /\ \E ms \in WildBudgets : RunBegin(1, ms)
  \/ RunStep(1)
  \/ RunEnd(1)

SpecWild == Init /\ [][NextWild]_vars

\* C15: in every state reachable by load_program and any sequence of steps
\* (self-modifying stores and jumps to arbitrary addresses included), A and
\* B are in 0..255, PC is in 0..65535 and every memory cell holds a value in
\* 0..255; advancing PC past 65535 wraps to 0.
C15_RegistersInRange ==
  /\ cpu[1].A \in 0 .. 255
  /\ cpu[1].B \in 0 .. 255
  /\ cpu[1].PC \in 0 .. 65535
  /\ DOMAIN cpu[1].mem \subseteq 0 .. 65535
  /\ \A a \in DOMAIN cpu[1].mem : cpu[1].mem[a] \in 0 .. 255
  /\ \A k \in 1 .. Len(cpu[1].output) : cpu[1].output[k] \in 0 .. 255
  /\ (fetched[1].pc = 65535 /\ fetched[1].opcode \notin {7, 8})
       => cpu[1].PC = IF fetched[1].opcode \in OperandOpcodes THEN 2 ELSE 0
  /\ (fetched[1].pc = 65534 /\ fetched[1].opcode \in {1, 2, 3, 4})
       => cpu[1].PC = 1

\* an LDA planted at 65534 has run: its operand bytes are at 65535 and 0
C15_Witness ==
  /\ fetched[1] = [pc |-> 65534, opcode |-> 1, operand |-> 256]
  /\ cpu[1].PC = 1
  /\ cpu[1].A = 0 /\ cpu[1].Z
\* ------------------------------------------------------------------------
\* Frame conditions of a step
\* ------------------------------------------------------------------------
\* the transition is a call of step on instance i, successful or failing
StepTaken(i) ==
  /\ phase[i] = "run"
  /\ \/ steps'[i] = steps[i] + 1
     \/ phase'[i] = "failed" /\ failure'[i].kind = "UnknownOpcode"

\* the byte the next step of instance i fetches as its opcode
OpcodeAt(i) == MemRead(cpu[i].mem, cpu[i].PC)

SameBut(c, d, keep) ==
  /\ "mem" \in keep \/ c.mem = d.mem
  /\ "PC" \in keep \/ c.PC = d.PC
  /\ "output" \in keep \/ c.output = d.output
  /\ c.A = d.A /\ c.B = d.B /\ c.Z = d.Z /\ c.running = d.running

\* C16: Z changes only on an instruction that writes A or B: every STA,
\* JMP, JZ, OUT and HLT step leaves Z, A and B unchanged; besides PC, STA
\* changes only Memory[operand], OUT changes only Output, and JMP/JZ change
\* nothing.
C16_FlagFrame ==
  [][StepTaken(1) =>
       LET c == cpu[1]
           d == cpu'[1]
           op == OpcodeAt(1)
           t == DecodedOperand(cpu[1])
       IN /\ op \notin {1, 2, 3, 5, 6} => d.Z = c.Z
          /\ op \in {4, 7, 8, 9, 255} => (d.A = c.A /\ d.B = c.B)
          /\ op = 4 =>
               /\ SameBut(c, d, {"mem", "PC"})
               /\ MemRead(d.mem, t) = c.A
               /\ \A a \in (DOMAIN c.mem \cup DOMAIN d.mem) \ {t} :
                    MemRead(d.mem, a) = MemRead(c.mem, a)
          /\ op = 9 => SameBut(c, d, {"output", "PC"})
          /\ op \in {7, 8} => SameBut(c, d, {"PC"})]_vars

\* after LDA 1, LDB 0 a store has run: Z is still set, A is still 1
C16_Witness ==
  /\ fetched[1].opcode = OPCODES_INV["STA"] /\ fetched[1].operand = 65535
  /\ cpu[1].Z /\ cpu[1].A = 1 /\ cpu[1].B = 0
  /\ MemRead(cpu[1].mem, 65535) = 1

\* C17: Output is append-only: across every step the previous Output is a
\* prefix of the new one; it grows by exactly one element, the current A
\* (in 0..255), on an OUT step and is unchanged by every other step, by a
\* failing step and by the end of run.
C17_OutputAppendOnly ==
  [][\A i \in Inst :
       LET old == cpu[i].output
           new == cpu'[i].output
       IN /\ Len(new) >= Len(old)
          /\ SubSeq(new, 1, Len(old)) = old
          /\ IF StepTaken(i) /\ OpcodeAt(i) = OPCODES_INV["OUT"]
               THEN /\ new = old \o <<cpu[i].A>>
                    /\ cpu[i].A \in 0 .. 255
                    /\ phase'[i] # "failed"
               ELSE new = old]_vars

\* two OUT steps and then a failing step
C17_Witness ==
  /\ cpu[1].output = <<0, 0>>
  /\ phase[1] = "failed" /\ failure[1].kind = "UnknownOpcode"
\* ------------------------------------------------------------------------
\* Runs of an instance that has halted
\* ------------------------------------------------------------------------
NextHalt ==
  \/ phase[1] = "new" /\ \E p \in Programs : Load(1, p)
  \/ phase[1] = "loaded" /\ \E ms \in Budgets : RunBegin(1, ms)
  \/ RunStep(1)
  \/ RunEnd(1)
  \/ \E ms \in Budgets : RunAgain(1, ms)

SpecHalt == Init /\ [][NextHalt]_vars

\* C18: HALTED is terminal: running starts true, its only transition is
\* true to false and only an HLT step makes it; nothing sets it back, and
\* once it is false run executes no further step, so A, B, PC, Z, memory
\* and Output stay as they were when HLT executed.
C18_HaltedIsTerminal ==
  [][/\ phase[1] \in {"new", "loaded"} => cpu[1].running
     /\ ~cpu[1].running => (cpu'[1] = cpu[1] /\ ~StepTaken(1))
     /\ (cpu[1].running /\ ~cpu'[1].running) =>
          /\ StepTaken(1)
          /\ OpcodeAt(1) = OPCODES_INV["HLT"]
          /\ cpu'[1] = [cpu[1] EXCEPT !.running = FALSE,
                                      !.PC = (cpu[1].PC + 1) % 65536]]_vars

\* a second run of a halted instance has returned without a step
C18_Witness ==
  /\ ~cpu[1].running /\ phase[1] = "returned"
  /\ steps[1] = 0 /\ max_steps[1] > 0
  /\ fetched[1].opcode = OPCODES_INV["HLT"]
\* ------------------------------------------------------------------------
\* The loader on programs that reach the end of memory
\* ------------------------------------------------------------------------
\* the largest n with 3n + 1 <= MEM_SIZE
FitLen == (MEM_SIZE - 1) \div 3

\* the longest program that fits and the shortest that does not
BigPrograms == {[k \in 1 .. n |-> <<"HLT">>] : n \in {FitLen, FitLen + 1}}

NextBigLoad ==
  phase[1] = "new" /\ \E p \in LoadPrograms \cup BigPrograms : Load(1, p)

SpecBigLoad == Init /\ [][NextBigLoad]_vars

\* C19: for a program whose n encodings plus the failsafe byte need more
\* than the memory size (3n + 1 > 65536), load_program does not fail; its
\* write addresses wrap modulo the memory size.
C19_LoaderWraps ==
  LET n == Len(program[1])
  IN (phase[1] # "new" /\ ValidMnemonics(program[1]) /\ 3 * n + 1 > 65536) =>
       /\ phase[1] = "loaded"
       /\ failure[1] = NoFailure
       /\ MemRead(cpu[1].mem, (3 * n) % 65536) = OPCODES_INV["HLT"]
\* ------------------------------------------------------------------------
\* Termination of run
\* ------------------------------------------------------------------------
MaxTermLen == 2

\* instructions that loop, branch, store into the program, fail and halt
TermInstrs ==
  {<<"LDA", 0>>, <<"LDA_MEM", 65535>>, <<"STA", 3>>, <<"ADD", 0>>,
   <<"JMP", 0>>, <<"JZ", 0>>, <<"OUT", 9>>, <<"HLT", 0>>}

TermPrograms == SeqsUpTo(TermInstrs, MaxTermLen)

NextTerm ==
  \/ phase[1] = "new" /\ \E p \in TermPrograms : Load(1, p)
  \/ phase[1] = "loaded" /\ \E ms \in Budgets : RunBegin(1, ms)
  \/ RunStep(1)
  \/ RunEnd(1)

\* run is sequential code: its loop iteration and its exit are taken
SpecTerm ==
  Init /\ [][NextTerm]_vars /\ WF_vars(RunStep(1)) /\ WF_vars(RunEnd(1))

\* C20: run(max_steps) always terminates, for max_steps >= 0: it executes
\* at most max_steps steps and ends in exactly one of three outcomes:
\* return with the engine HALTED, the unknown-opcode failure or the
\* step-budget failure; after an unknown-opcode failure A, B, Z, running,
\* memory and Output are as before the failing step and only PC has
\* advanced by 1 (mod 65536).
C20_RunTerminates ==
  /\ (phase[1] = "run") ~> Finished(1)
  /\ [](/\ steps[1] <= max_steps[1]
        /\ phase[1] = "returned" =>
             (~cpu[1].running /\ failure[1] = NoFailure)
        /\ phase[1] = "failed" =>
             failure[1].kind \in {"UnknownOpcode", "MaxSteps"})
  /\ [][(StepTaken(1) /\ phase'[1] = "failed") =>
          cpu'[1] = [cpu[1] EXCEPT !.PC = (cpu[1].PC + 1) % 65536]]_vars

\* a run that ended with the unknown-opcode failure after an OUT step
C20_Witness ==
  /\ phase[1] = "failed" /\ failure[1].kind = "UnknownOpcode"
  /\ steps[1] = 2 /\ cpu[1].output = <<0, 0>> /\ cpu[1].PC = 3
====
